---- MODULE Spec2Model ----
(***************************************************************************)
(* The WebSocketClient of the Slack Clone Python SDK                       *)
(* (slack_clone/docs/tools/python-client.py): one transport connection,    *)
(* channel subscriptions multiplexed over it, a background receive task    *)
(* per connect() and dispatch of inbound frames to callbacks.              *)
(*                                                                         *)
(* The client runs on a cooperative scheduler: the code between two        *)
(* suspension points is one atomic step.  A caller operation is one        *)
(* action; the receive task takes one action per frame (or per transport   *)
(* event) it wakes up for.                                                 *)
(*                                                                         *)
(* The HTTPClient of the same file is modelled next to it: request() with  *)
(* its retry loop, one action per attempt.                                 *)
(***************************************************************************)
EXTENDS Integers, Sequences, FiniteSets, TLC

\* ---- bounds -------------------------------------------------------------
\* pieces (a word, a dot or a separator) in an uploaded file's name
MaxNameLen == 3
\* transports the caller may open during one behaviour (connect() successes)
MaxConns == 2
\* registrations the caller makes with on() during one behaviour
MaxHandlers == 2

\* ---- inputs -------------------------------------------------------------
\* channel ids the caller passes; "" is a str like any other
ChannelIds == {"", "c1"}
\* event names carried by inbound frames and used as callback keys
Events == {"new_message", "typing_start"}
\* handler functions the caller registers with on(), and the callbacks passed
\* to join_channel; the ones in Raising raise when they are invoked
Handlers == {"h1", "hx"}
Raising == {"hx", "cbx"}
Payloads == {"p1"}

\* a Python dict is a function with a finite domain
EmptyDict == [k \in {} |-> ""]
DictSet(d, k, v) == [x \in (DOMAIN d) \cup {k} |-> IF x = k THEN v ELSE d[x]]
DictDel(d, k) == [x \in (DOMAIN d) \ {k} |-> d[x]]
DictGet(d, k, default) == IF k \in DOMAIN d THEN d[k] ELSE default

\* the callback maps the caller passes to join_channel (None stands for {})
CallbackMaps ==
  { EmptyDict,
    [e \in Events |-> IF e = "new_message" THEN "cb1" ELSE "cbx"] }

\* Python's None where a str is expected, and truthiness of an Optional[str]
NoneId == "<None>"
Truthy(x) == x # NoneId /\ x # ""

\* topic = f"channel:{channel_id}"
Topic(channel_id) == "channel:" \o channel_id

\* the nine channel-scoped senders and the event name each one sends
SenderEvent ==
  [op \in {"send_message", "edit_message", "delete_message", "start_typing",
           "stop_typing", "add_reaction", "remove_reaction", "mark_as_read",
           "load_older_messages"} |->
     CASE op = "start_typing" -> "typing_start"
       [] op = "stop_typing" -> "typing_stop"
       [] op = "mark_as_read" -> "mark_read"
       [] OTHER -> op]
Senders == DOMAIN SenderEvent

\* errors as the caller sees them: exception class and message
NoError == [cls |-> "", msg |-> ""]
NotConnectedErr == [cls |-> "SlackCloneError", msg |-> "WebSocket not connected"]
\* one error for both refusals
SameAsNotConnected(channel_id) == NotConnectedErr
NotJoinedErr(channel_id) ==
  [cls |-> "SlackCloneError", msg |-> "Not joined to channel: " \o channel_id]
\* what websockets.connect() raises when no transport can be established
TransportFailures == {"refused", "timed out"}
ConnectFailedErr(e) ==
  [cls |-> "SlackCloneError", msg |-> "WebSocket connection failed: " \o e]
\* websockets' own exception, raised by send() on a transport that is gone
ConnectionClosedErr == [cls |-> "ConnectionClosed", msg |-> ""]

\* inbound frames (after json.loads); the last one carries no key at all
Frames ==
  { [topic |-> t, event |-> e, payload |-> p] :
      t \in {Topic(c) : c \in ChannelIds} \cup {"user:c1"},
      e \in Events, p \in Payloads }
  \cup { EmptyDict }

VARIABLES
  websocket,       \* self.websocket: 0 is None, else the transport's number
  connected,       \* self.connected
  listen_task,     \* self._listen_task: 0 is None, else the task's number
  channels,        \* self.channels: channel id -> [topic, callbacks]
  event_handlers,  \* self.event_handlers: event -> list of handlers
  sock,            \* the transports: "unborn", "open", "lost", "closed"
  task,            \* the receive tasks: [st, ws]
  joined,          \* history: ids whose join returned and no leave/disconnect since
  last,            \* the last step taken and what the caller or the log saw
  http,            \* the HTTPClient and the request() it is running, if any
  auth,            \* the AuthService: its tokens and the call it last served
  dash             \* the dashboard's AppConfig / ThemeManager call last made

vars == <<websocket, connected, listen_task, channels, event_handlers, sock,
          task, joined, last, http, auth, dash>>

Conns == 1..MaxConns

\* what one step leaves in last: the operation, the channel id it was given,
\* the error it raised, the frames it put on the transport, the handler
\* invocations it made (with the frame that caused them), the task that took
\* the step (0: the caller), whether a disconnect() followed a disconnect(),
\* the transport failure a connect() wrapped, and the transport a frame came from
Step(op) ==
  [op |-> op, cid |-> NoneId, err |-> NoError, sent |-> <<>>, calls |-> <<>>,
   frame |-> EmptyDict, who |-> 0, again |-> FALSE, cause |-> "", ws |-> 0,
   token |-> NoneId]

Envelope(topic, event, payload) ==
  [topic |-> topic, event |-> event, payload |-> payload]

\* ---- the HTTP client: configuration, responses, errors -------------------

\* HTTPClient.__init__ defaults: retry_attempts: int = 3, retry_delay: float = 1.0
DefaultRetryAttempts == 3
DefaultRetryDelay == 1
\* the retry_attempts and retry_delay (seconds) a caller constructs a client with
RetryAttemptsGiven == 0..DefaultRetryAttempts
RetryDelaysGiven == {DefaultRetryDelay, 3}

\* a header the response does not carry
Absent == <<>>
\* a Retry-After header that gives a date instead of a number of seconds
HttpDate == <<"W", "e", "d", ",", " ", "2", "1", " ", "O", "c", "t">>

\* what one attempt of session.request() comes to: a response (status, the
\* error code and details of its body's "error" object, whether the body is
\* JSON, whether its "error" member is a plain string instead of an object,
\* its Retry-After header as characters, the body) or an exception
Resp(status, code, json) ==
  [kind |-> "response", status |-> status, code |-> code, json |-> json,
   body |-> "body", cls |-> "", flat |-> FALSE, details |-> "fields",
   retry_after |-> Absent]
Exc(cls) ==
  [kind |-> "exception", status |-> 0, code |-> "", json |-> FALSE,
   body |-> "", cls |-> cls, flat |-> FALSE, details |-> "",
   retry_after |-> Absent]
HttpOutcomes ==
  { Resp(200, "", TRUE), Resp(200, "", FALSE),
    Resp(401, "TOKEN_EXPIRED", TRUE), Resp(401, "INVALID", TRUE),
    Resp(403, "FORBIDDEN", TRUE), Resp(404, "NOT_FOUND", FALSE),
    [Resp(404, "", TRUE) EXCEPT !.flat = TRUE],
    Resp(422, "INVALID", TRUE), Resp(429, "SLOW_DOWN", TRUE),
    [Resp(429, "SLOW_DOWN", TRUE) EXCEPT !.retry_after = <<"3", "0">>],
    [Resp(429, "SLOW_DOWN", TRUE) EXCEPT !.retry_after = HttpDate],
    Resp(500, "INTERNAL", TRUE), Resp(503, "", FALSE),
    Exc("ClientError"), Exc("TimeoutError"), Exc("ValueError") }

\* int(text) for a text of decimal digits; any other text is a ValueError
DigitValue ==
  [c \in {"0", "1", "2", "3", "4", "5", "6", "7", "8", "9"} |->
     CASE c = "0" -> 0 [] c = "1" -> 1 [] c = "2" -> 2 [] c = "3" -> 3
       [] c = "4" -> 4 [] c = "5" -> 5 [] c = "6" -> 6 [] c = "7" -> 7
       [] c = "8" -> 8 [] OTHER -> 9]
IsInt(text) == Len(text) > 0 /\ \A i \in 1..Len(text) : text[i] \in DOMAIN DigitValue
RECURSIVE ParseInt(_)
ParseInt(text) ==
  IF Len(text) = 0 THEN 0
  ELSE 10 * ParseInt(SubSeq(text, 1, Len(text) - 1)) + DigitValue[text[Len(text)]]

\* an exception of the SDK (code, status and details as its constructor sets
\* them; retry_after for RateLimitError) or of a library (no status: 0)
HttpError(cls, code, status) ==
  [cls |-> cls, code |-> code, status |-> status, details |-> NoneId,
   retry_after |-> 0]
NoHttpError == HttpError("", "", 0)
SdkErrors == {"SlackCloneError", "AuthenticationError", "TokenExpiredError",
              "RateLimitError", "ValidationError"}

\* response.headers.get("Retry-After", "60")
RetryAfterHeader(response) ==
  IF response.retry_after = Absent THEN <<"6", "0">> ELSE response.retry_after

\* _handle_error_response(response): the exception it raises.  The try block
\* catches ContentTypeError and ValueError only: error_info.get() on an
\* "error" member that is a string raises AttributeError out of it; so does
\* int() on a Retry-After header that is no number, with ValueError
HandleErrorResponse(response) ==
  IF response.json /\ response.flat THEN HttpError("AttributeError", "", 0)
  ELSE
    LET code == IF response.json THEN response.code ELSE ToString(response.status)
        details == IF response.json THEN response.details ELSE NoneId
    IN CASE response.status = 401 ->
              IF code = "TOKEN_EXPIRED"
                THEN HttpError("TokenExpiredError", "TOKEN_EXPIRED", 401)
                ELSE HttpError("AuthenticationError", "AUTHENTICATION_ERROR", 401)
         [] response.status = 403 ->
              [HttpError("SlackCloneError", code, 403) EXCEPT !.details = details]
         [] response.status = 422 ->
              [HttpError("ValidationError", "VALIDATION_ERROR", 422)
                 EXCEPT !.details = details]
         [] response.status = 429 ->
              IF IsInt(RetryAfterHeader(response))
                THEN [HttpError("RateLimitError", "RATE_LIMIT_EXCEEDED", 429)
                        EXCEPT !.retry_after = ParseInt(RetryAfterHeader(response))]
                ELSE HttpError("ValueError", "", 0)
         [] OTHER ->
              [HttpError("SlackCloneError", code, response.status)
                 EXCEPT !.details = details]

\* the exception one attempt ends with, NoHttpError if it ends with a return
AttemptError(outcome) ==
  IF outcome.kind = "exception" THEN HttpError(outcome.cls, "", 0)
  ELSE IF outcome.status >= 400 THEN HandleErrorResponse(outcome)
  ELSE NoHttpError

\* try: return await response.json() except aiohttp.ContentTypeError: return {}
ResponseJson(response) == IF response.json THEN response.body ELSE "{}"

\* a _should_retry that goes by the presence of a status, whatever it is
RetryAnyStatus(error) ==
  \/ error.cls = "ClientError"
  \/ error.cls = "TimeoutError"
  \/ (error.cls \in SdkErrors /\ error.status # 0)

\* _should_retry(error)
ShouldRetry(error) ==
  \/ error.cls = "ClientError"
  \/ error.cls = "TimeoutError"
  \/ (error.cls \in SdkErrors /\ error.status # 0 /\ error.status >= 500)

\* a delay that grows by one retry_delay per attempt
BackoffLinear(retry_delay, attempt) == retry_delay * (attempt + 1)

\* self.retry_delay * (2 ** attempt)
Backoff(retry_delay, attempt) == retry_delay * (2 ^ attempt)

\* HTTPClient(base_url, timeout, retry_attempts, retry_delay), no request() yet
HTTPClientNew(retry_attempts, retry_delay) ==
  [retry_attempts |-> retry_attempts, retry_delay |-> retry_delay,
   pc |-> "idle", attempt |-> 0, outcomes |-> <<>>, slept |-> <<>>,
   last_error |-> NoHttpError, result |-> "", err |-> NoHttpError]

\* ---- the dashboard: AppConfig and ThemeManager ---------------------------

\* AppConfig.MAX_FILE_SIZE (MB) and AppConfig.SUPPORTED_FORMATS
MAX_FILE_SIZE == 200
SUPPORTED_FORMATS == <<".csv", ".xlsx", ".xls">>

\* file names, written as pieces: words, "." and the path separator "/"
NameWords == {"a", "csv", "CSV", "xlsx", "Xls", "pdf"}
NamePieces == NameWords \cup {".", "/"}
FileNames == UNION {[1..n -> NamePieces] : n \in 0..MaxNameLen}
\* file sizes in bytes, around the limit
FileSizes ==
  {0, 1024 * 1024, MAX_FILE_SIZE * 1024 * 1024 - 1, MAX_FILE_SIZE * 1024 * 1024,
   MAX_FILE_SIZE * 1024 * 1024 + 1, 300 * 1024 * 1024}

LastIndexOf(p, c) ==
  LET at == {i \in 1..Len(p) : p[i] = c}
  IN IF at = {} THEN 0 ELSE CHOOSE i \in at : \A j \in at : j <= i

\* os.path.splitext(p)[1]: from the last dot on, if that dot comes after the
\* last separator and after a character of the base name that is no dot
Splitext(p) ==
  LET sepIndex == LastIndexOf(p, "/")
      dotIndex == LastIndexOf(p, ".")
  IN IF /\ dotIndex > sepIndex
        /\ \E i \in (sepIndex + 1)..(dotIndex - 1) : p[i] # "."
       THEN SubSeq(p, dotIndex, Len(p))
       ELSE <<>>

\* str.lower() of a piece
PyLower(w) ==
  CASE w = "CSV" -> "csv"
    [] w = "Xls" -> "xls"
    [] OTHER -> w

RECURSIVE Concat(_)
Concat(pieces) ==
  IF pieces = <<>> THEN "" ELSE Head(pieces) \o Concat(Tail(pieces))

\* file_ext = os.path.splitext(file_name)[1].lower()
FileExt(file_name) ==
  LET ext == Splitext(file_name)
  IN Concat([i \in 1..Len(ext) |-> PyLower(ext[i])])

SeqRange(q) == {q[i] : i \in 1..Len(q)}

\* a size test that rejects a file of exactly the limit
TooLargeAtLimit(file_size) == file_size >= MAX_FILE_SIZE * 1024 * 1024

\* if file_size > max_size_bytes
TooLarge(file_size) == file_size > MAX_FILE_SIZE * 1024 * 1024

\* validate_file_upload(file_name, file_size): (valid, message); the message
\* is written as its opening phrase and the rest
ValidateFileUpload(file_name, file_size) ==
  IF FileExt(file_name) \notin SeqRange(SUPPORTED_FORMATS)
    THEN <<FALSE, <<"Unsupported file format", ". Supported: .csv, .xlsx, .xls">>>>
  ELSE IF TooLarge(file_size)
    THEN <<FALSE, <<"File too large", ". Max size: 200MB">>>>
  ELSE <<TRUE, <<"File validation passed">>>>

\* AppConfig.THEMES
THEMES ==
  [t \in {"light", "dark"} |->
     IF t = "light"
       THEN [background_color |-> "#FFFFFF", text_color |-> "#262730",
             accent_color |-> "#FF6B6B"]
       ELSE [background_color |-> "#0E1117", text_color |-> "#FAFAFA",
             accent_color |-> "#FF6B6B"]]

\* a lookup that falls back to the dark theme
GetThemeColorsDark(theme) == DictGet(THEMES, theme, THEMES["dark"])

\* AppConfig.get_theme_colors(theme)
GetThemeColors(theme) == DictGet(THEMES, theme, THEMES["light"])

\* ThemeManager.themes
ManagerThemes ==
  [t \in {"light", "dark"} |->
     IF t = "light"
       THEN [primary_color |-> "#FF6B6B", background_color |-> "#FFFFFF",
             secondary_background_color |-> "#F0F2F6", text_color |-> "#262730",
             accent_color |-> "#FF4B4B", sidebar_background |-> "#F0F2F6"]
       ELSE [primary_color |-> "#FF6B6B", background_color |-> "#0E1117",
             secondary_background_color |-> "#262730", text_color |-> "#FAFAFA",
             accent_color |-> "#FF4B4B", sidebar_background |-> "#262730"]]

\* ThemeManager.get_chart_theme(theme_name)
GetChartTheme(theme_name) ==
  LET theme == DictGet(ManagerThemes, theme_name, ManagerThemes["light"])
  IN [background_color |-> theme.background_color,
      text_color |-> theme.text_color,
      grid_color |-> theme.text_color \o "20",
      paper_bgcolor |-> theme.background_color,
      plot_bgcolor |-> theme.background_color]

\* theme names a caller passes
ThemeNames == {"light", "dark", "invalid", "Light", ""}

\* what one call leaves in dash
DashCall(op) ==
  [op |-> op, name |-> <<>>, size |-> 0, theme |-> "",
   valid |-> <<FALSE, <<>>>>, colors |-> EmptyDict]

\* ---- the authentication service -----------------------------------------

\* what a call of http_client.request() comes to for its caller: the body it
\* returns ("body": the JSON object the endpoint documents; "{}": the empty
\* dict request() returns for a body that is no JSON) or the error it raises
RequestReturns(body) == [ok |-> TRUE, body |-> body, err |-> NoHttpError]
RequestRaises(error) == [ok |-> FALSE, body |-> "", err |-> error]
RequestResults ==
  {RequestReturns(b) : b \in {"body", "{}"}}
    \cup {RequestRaises(AttemptError(o)) :
            o \in {x \in HttpOutcomes : AttemptError(x) # NoHttpError}}

\* the tokens the server hands out at login and at refresh
LoginAccessToken == "at-login"
LoginRefreshToken == "rt-login"
RefreshedAccessToken == "at-refreshed"

\* raise AuthenticationError(message): code and status as the class sets them
AuthenticationErr == HttpError("AuthenticationError", "AUTHENTICATION_ERROR", 401)
\* response["data"] on a body without that member
KeyErrorData == HttpError("KeyError", "", 0)

\* one call of http_client.request(): the endpoint, the bearer token of the
\* Authorization header (None: no such header), and what the call came to
Sent(endpoint, bearer, response) ==
  [endpoint |-> endpoint, bearer |-> bearer, response |-> response]

\* what one call leaves in auth besides the tokens: the call, the requests
\* it made, what it returned or raised
Served(a, op, requests, result, err) ==
  [a EXCEPT !.op = op, !.requests = requests, !.result = result, !.err = err]

\* AuthService.__init__: no tokens
AuthNew ==
  [access_token |-> NoneId, refresh_token |-> NoneId,
   op |-> "init", requests |-> <<>>, result |-> "", err |-> NoHttpError]

Init ==
  /\ http = HTTPClientNew(DefaultRetryAttempts, DefaultRetryDelay)
  /\ dash = DashCall("init")
  /\ auth = AuthNew
  /\ websocket = 0
  /\ connected = FALSE
  /\ listen_task = 0
  /\ channels = EmptyDict
  /\ event_handlers = EmptyDict
  /\ sock = [s \in Conns |-> "unborn"]
  /\ task = [t \in Conns |-> [st |-> "none", ws |-> 0]]
  /\ joined = {}
  /\ last = Step("init")

\* ---- the receive loop and dispatch --------------------------------------

\* a task that has not returned: scheduled, suspended in recv(), suspended in
\* a handler it awaits, or looping
Live(t) == task[t].st \in {"pending", "recv", "busy", "spin"}
\* a task looping on a recv() that raises before it suspends never yields to
\* the scheduler again: nothing else of the program runs
Hung == \E t \in Conns : task[t].st = "spin"

\* one handler invocation inside its own try/except: the exception is logged
\* (scope tells the two log lines apart: "callback" or "global handler")
Invoke(scope, h, payload) ==
  [scope |-> scope, handler |-> h, payload |-> payload, raised |-> h \in Raising]

\* a loop the first raising handler ends
InvokeEachAbort(hs, payload) ==
  LET all == [i \in 1..Len(hs) |-> Invoke("global", hs[i], payload)]
      bad == {i \in 1..Len(hs) : all[i].raised}
      n == IF bad = {} THEN Len(hs) ELSE CHOOSE i \in bad : \A j \in bad : i <= j
  IN SubSeq(all, 1, n)

\* a loop over the handlers latest first
InvokeEachReversed(hs, payload) ==
  [i \in 1..Len(hs) |-> Invoke("global", hs[Len(hs) + 1 - i], payload)]

\* for handler in handlers: try: await handler(payload) except Exception: log
InvokeEach(hs, payload) == [i \in 1..Len(hs) |-> Invoke("global", hs[i], payload)]

\* a scan that settles for the first channel whatever its topic
FindChannelAny(topic) ==
  IF DOMAIN channels # {}
    THEN CHOOSE cid \in DOMAIN channels :
           \A other \in DOMAIN channels : Truthy(other) => Truthy(cid)
    ELSE NoneId

\* for cid, channel_info in self.channels.items(): if topic matches: break
FindChannel(topic) ==
  IF \E cid \in DOMAIN channels : channels[cid].topic = topic
    THEN CHOOSE cid \in DOMAIN channels : channels[cid].topic = topic
    ELSE NoneId

\* if channel_id: callbacks = ...; if event in callbacks: await callbacks[event](payload)
ChannelDispatch(channel_id, event, payload) ==
  IF Truthy(channel_id) /\ event \in DOMAIN channels[channel_id].callbacks
    THEN <<Invoke("channel", channels[channel_id].callbacks[event], payload)>>
    ELSE <<>>

\* if event in self.event_handlers: for handler in self.event_handlers[event]
GlobalDispatch(event, payload) ==
  IF event \in DOMAIN event_handlers
    THEN InvokeEach(event_handlers[event], payload)
    ELSE <<>>

\* _handle_message: the handler invocations it makes, in order
HandleMessage(message) ==
  LET topic == DictGet(message, "topic", "")
      event == DictGet(message, "event", "")
      payload == DictGet(message, "payload", "{}")
  IN ChannelDispatch(FindChannel(topic), event, payload)
       \o GlobalDispatch(event, payload)

Done(t) == task' = [task EXCEPT ![t] = [st |-> "done", ws |-> 0]]

\* while self.connected and self.websocket: message = await self.websocket.recv()
\* evaluated by task t when it starts and after each frame.  recv() on a
\* transport that is gone raises ConnectionClosed at once.  recv() on a
\* transport another task is already suspended on is refused by the library:
\* with RuntimeError (logged by the last except clause, and the loop tries
\* again without ever suspending) or with a WebSocketException (the loop ends).
ListenLoop(t) ==
  IF connected /\ websocket # 0
    THEN IF sock[websocket] # "open"
           THEN connected' = FALSE /\ Done(t)
           ELSE IF \E u \in Conns \ {t} : task[u].st = "recv" /\ task[u].ws = websocket
                  THEN \/ /\ connected' = connected
                          /\ task' = [task EXCEPT ![t] = [st |-> "spin", ws |-> websocket]]
                       \/ /\ connected' = FALSE
                          /\ Done(t)
                  ELSE /\ connected' = connected
                       /\ task' = [task EXCEPT ![t] = [st |-> "recv", ws |-> websocket]]
    ELSE connected' = connected /\ Done(t)

\* the task created by connect() gets its first turn
TaskStart(t) ==
  /\ ~Hung
  /\ task[t].st = "pending"
  /\ ListenLoop(t)
  /\ last' = [Step("task_start") EXCEPT !.who = t]
  /\ UNCHANGED <<websocket, listen_task, channels, event_handlers, sock, joined>>
  /\ UNCHANGED <<http, auth, dash>>

\* a frame arrives for the task suspended in recv(): _handle_message, then
\* the loop condition again
Recv(t, message) ==
  /\ ~Hung
  /\ task[t].st = "recv"
  /\ sock[task[t].ws] = "open"
  /\ ListenLoop(t)
  /\ last' = [Step("recv") EXCEPT !.who = t, !.frame = message,
                                  !.calls = HandleMessage(message),
                                  !.ws = task[t].ws]
  /\ UNCHANGED <<websocket, listen_task, channels, event_handlers, sock, joined>>
  /\ UNCHANGED <<http, auth, dash>>

\* a frame arrives for the task suspended in recv(), and the last handler
\* _handle_message awaits for it (await callback(payload), await
\* handler(payload)) suspends: the task is inside _handle_message, not in
\* recv(), until that handler is resumed
RecvSuspend(t, message) ==
  /\ ~Hung
  /\ task[t].st = "recv"
  /\ sock[task[t].ws] = "open"
  /\ HandleMessage(message) # <<>>
  /\ task' = [task EXCEPT ![t] = [st |-> "busy", ws |-> task[t].ws]]
  /\ last' = [Step("recv_suspend") EXCEPT !.who = t, !.frame = message,
                                          !.calls = HandleMessage(message),
                                          !.ws = task[t].ws]
  /\ UNCHANGED <<websocket, connected, listen_task, channels, event_handlers,
                 sock, joined>>
  /\ UNCHANGED <<http, auth, dash>>

\* the suspended handler completes or raises (logged): _handle_message
\* returns, then the loop condition again
HandlerResume(t) ==
  /\ ~Hung
  /\ task[t].st = "busy"
  /\ ListenLoop(t)
  /\ last' = [Step("handler_resume") EXCEPT !.who = t]
  /\ UNCHANGED <<websocket, listen_task, channels, event_handlers, sock, joined>>
  /\ UNCHANGED <<http, auth, dash>>

\* a frame json.loads() rejects: except Exception logs it, the loop goes on
RecvGarbage(t) ==
  /\ ~Hung
  /\ task[t].st = "recv"
  /\ sock[task[t].ws] = "open"
  /\ ListenLoop(t)
  /\ last' = [Step("recv_garbage") EXCEPT !.who = t]
  /\ UNCHANGED <<websocket, listen_task, channels, event_handlers, sock, joined>>
  /\ UNCHANGED <<http, auth, dash>>

\* a handler that breaks out of the loop and leaves the flag as it is
RecvClosedKeepsFlag(t) ==
  /\ ~Hung
  /\ task[t].st = "recv"
  /\ sock[task[t].ws] \in {"lost", "closed"}
  /\ connected' = connected
  /\ Done(t)
  /\ last' = [Step("recv_closed") EXCEPT !.who = t]
  /\ UNCHANGED <<websocket, listen_task, channels, event_handlers, sock, joined>>
  /\ UNCHANGED <<http, auth, dash>>

\* except ConnectionClosed: self.connected = False; break
RecvClosed(t) ==
  /\ ~Hung
  /\ task[t].st = "recv"
  /\ sock[task[t].ws] \in {"lost", "closed"}
  /\ connected' = FALSE
  /\ Done(t)
  /\ last' = [Step("recv_closed") EXCEPT !.who = t]
  /\ UNCHANGED <<websocket, listen_task, channels, event_handlers, sock, joined>>
  /\ UNCHANGED <<http, auth, dash>>

\* except WebSocketException: self.connected = False; break
\* (the library fails the connection when it raises a protocol error)
RecvError(t) ==
  /\ ~Hung
  /\ task[t].st = "recv"
  /\ sock[task[t].ws] = "open"
  /\ connected' = FALSE
  /\ Done(t)
  /\ sock' = [sock EXCEPT ![task[t].ws] = "lost"]
  /\ last' = [Step("recv_error") EXCEPT !.who = t]
  /\ UNCHANGED <<websocket, listen_task, channels, event_handlers, joined>>
  /\ UNCHANGED <<http, auth, dash>>

\* the peer or the network ends a transport, whatever the client is doing;
\* the client has not noticed yet
TransportLost(s) ==
  /\ sock[s] = "open"
  /\ sock' = [sock EXCEPT ![s] = "lost"]
  /\ last' = Step("transport_lost")
  /\ UNCHANGED <<websocket, connected, listen_task, channels, event_handlers,
                 task, joined>>
  /\ UNCHANGED <<http, auth, dash>>

\* ---- the caller's operations ---------------------------------------------

\* the number websockets.connect() gives the next transport
NextSock == Cardinality({s \in Conns : sock[s] # "unborn"}) + 1
Registered == {<<e, i>> : e \in DOMAIN event_handlers, i \in 1..MaxHandlers}
NumRegistered ==
  Cardinality({r \in Registered : r[2] <= Len(event_handlers[r[1]])})

\* await websockets.connect(uri) suspends the caller, so a task created by an
\* earlier connect() has had its first turn by the time connect() goes on
NonePending == \A t \in Conns : task[t].st # "pending"

\* connect(token), websockets.connect() succeeds: the handle and the task
\* reference are overwritten, whatever they held
ConnectOpens ==
  /\ ~Hung
  /\ NonePending
  /\ NextSock \in Conns
  /\ sock' = [sock EXCEPT ![NextSock] = "open"]
  /\ websocket' = NextSock
  /\ connected' = TRUE
  /\ task' = [task EXCEPT ![NextSock] = [st |-> "pending", ws |-> 0]]
  /\ listen_task' = NextSock
  /\ UNCHANGED <<channels, event_handlers, joined>>
  /\ UNCHANGED <<http, auth, dash>>

\* connect(token) called by the program itself
ConnectOk == ConnectOpens /\ last' = Step("connect")

\* a connect() that raises the flag before the transport is there
ConnectFailFlagged(e) ==
  /\ ~Hung
  /\ NonePending
  /\ connected' = TRUE
  /\ last' = [Step("connect") EXCEPT !.err = ConnectFailedErr(e), !.cause = e]
  /\ UNCHANGED <<websocket, listen_task, channels, event_handlers,
                 sock, task, joined>>
  /\ UNCHANGED <<http, auth, dash>>

\* connect(token), websockets.connect() raises e: wrapped in SlackCloneError
ConnectRaises ==
  /\ ~Hung
  /\ NonePending
  /\ UNCHANGED <<websocket, connected, listen_task, channels, event_handlers,
                 sock, task, joined>>
  /\ UNCHANGED <<http, auth, dash>>

\* connect(token) called by the program itself, raising
ConnectFail(e) ==
  /\ ConnectRaises
  /\ last' = [Step("connect") EXCEPT !.err = ConnectFailedErr(e), !.cause = e]

\* None has no close()
AttributeErr == [cls |-> "AttributeError", msg |-> ""]

\* disconnect() without the "if self.websocket:" guard around close()
DisconnectUnguarded ==
  /\ ~Hung
  /\ connected' = FALSE
  /\ task' = IF listen_task # 0 /\ task[listen_task].st \in {"pending", "recv", "busy"}
               THEN [task EXCEPT ![listen_task] = [st |-> "cancelled", ws |-> 0]]
               ELSE task
  /\ IF websocket # 0
       THEN /\ sock' = [sock EXCEPT ![websocket] = "closed"]
            /\ websocket' = 0
            /\ channels' = EmptyDict
            /\ joined' = {}
            /\ last' = [Step("disconnect") EXCEPT !.again = (last.op = "disconnect")]
       ELSE /\ last' = [Step("disconnect") EXCEPT !.again = (last.op = "disconnect"),
                                                  !.err = AttributeErr]
            /\ UNCHANGED <<sock, websocket, channels, joined>>
  /\ UNCHANGED <<listen_task, event_handlers>>
  /\ UNCHANGED <<http, auth, dash>>

\* a disconnect() that resets the handler registry with the subscriptions
DisconnectClearsHandlers ==
  /\ ~Hung
  /\ connected' = FALSE
  /\ task' = IF listen_task # 0 /\ task[listen_task].st \in {"pending", "recv", "busy"}
               THEN [task EXCEPT ![listen_task] = [st |-> "cancelled", ws |-> 0]]
               ELSE task
  /\ sock' = IF websocket # 0 THEN [sock EXCEPT ![websocket] = "closed"] ELSE sock
  /\ websocket' = 0
  /\ channels' = EmptyDict
  /\ joined' = {}
  /\ last' = [Step("disconnect") EXCEPT !.again = (last.op = "disconnect")]
  /\ event_handlers' = EmptyDict
  /\ UNCHANGED listen_task
  /\ UNCHANGED <<http, auth, dash>>

\* disconnect(): cancel and await self._listen_task (a task that already
\* returned stays as it is; the reference is kept), close and release
\* self.websocket if there is one, clear channels.  Nothing in it raises:
\* CancelledError is swallowed, close() on a transport that is gone returns.
Teardown ==
  /\ ~Hung
  /\ connected' = FALSE
  /\ task' = IF listen_task # 0 /\ task[listen_task].st \in {"pending", "recv", "busy"}
               THEN [task EXCEPT ![listen_task] = [st |-> "cancelled", ws |-> 0]]
               ELSE task
  /\ sock' = IF websocket # 0 THEN [sock EXCEPT ![websocket] = "closed"] ELSE sock
  /\ websocket' = 0
  /\ channels' = EmptyDict
  /\ joined' = {}
  /\ UNCHANGED <<listen_task, event_handlers>>
  /\ UNCHANGED <<http, auth, dash>>

\* disconnect() called by the program itself
Disconnect ==
  /\ Teardown
  /\ last' = [Step("disconnect") EXCEPT !.again = (last.op = "disconnect")]

\* a guard that looks at the handle only
HandleMissing == websocket = 0

\* if not self.websocket or not self.connected: raise (join_channel)
JoinRefused == websocket = 0 \/ ~connected

\* a join that stores the channel info before it sends the frame
StoredBeforeSend(channel_id, callbacks) ==
  DictSet(channels, channel_id,
          [topic |-> Topic(channel_id), callbacks |-> callbacks])

\* send() raises: "self.channels[channel_id] = ..." below it is not reached
NotStored(channel_id, callbacks) == channels

\* join_channel(channel_id, callbacks)
JoinChannel(channel_id, callbacks) ==
  /\ ~Hung
  /\ IF JoinRefused
       THEN /\ last' = [Step("join_channel") EXCEPT !.cid = channel_id,
                                                    !.err = NotConnectedErr]
            /\ UNCHANGED <<channels, joined>>
       ELSE IF sock[websocket] # "open"
         THEN \* await self.websocket.send(...) raises
              /\ last' = [Step("join_channel") EXCEPT !.cid = channel_id,
                                                      !.err = ConnectionClosedErr]
              /\ channels' = NotStored(channel_id, callbacks)
              /\ UNCHANGED joined
         ELSE /\ channels' = DictSet(channels, channel_id,
                               [topic |-> Topic(channel_id), callbacks |-> callbacks])
              /\ joined' = joined \cup {channel_id}
              /\ last' = [Step("join_channel") EXCEPT !.cid = channel_id,
                            !.sent = <<Envelope(Topic(channel_id), "phx_join", "{}")>>]
  /\ UNCHANGED <<websocket, connected, listen_task, event_handlers, sock, task>>
  /\ UNCHANGED <<http, auth, dash>>

\* a leave that forgets the record
KeepSubscription(channel_id) == channels

\* del self.channels[channel_id]
Unsubscribe(channel_id) == DictDel(channels, channel_id)

\* the dictionary's own exception for a key it does not hold
KeyErr(channel_id) == [cls |-> "KeyError", msg |-> channel_id]

\* a leave that looks the id up without testing for it
LeaveUnknownRaises(channel_id) ==
  [Step("leave_channel") EXCEPT !.cid = channel_id, !.err = KeyErr(channel_id)]

\* if channel_id not in self.channels: return
LeaveUnknown(channel_id) == [Step("leave_channel") EXCEPT !.cid = channel_id]

\* leave_channel(channel_id)
LeaveChannel(channel_id) ==
  /\ ~Hung
  /\ IF channel_id \notin DOMAIN channels
       THEN /\ last' = LeaveUnknown(channel_id)
            /\ UNCHANGED <<channels, joined>>
       ELSE IF websocket # 0 /\ connected
         THEN IF sock[websocket] # "open"
                THEN \* await self.websocket.send(...) raises before the del
                     /\ last' = [Step("leave_channel") EXCEPT !.cid = channel_id,
                                                   !.err = ConnectionClosedErr]
                     /\ UNCHANGED <<channels, joined>>
                ELSE /\ channels' = Unsubscribe(channel_id)
                     /\ joined' = joined \ {channel_id}
                     /\ last' = [Step("leave_channel") EXCEPT !.cid = channel_id,
                          !.sent = <<Envelope(channels[channel_id].topic, "phx_leave", "{}")>>]
         ELSE /\ channels' = Unsubscribe(channel_id)
              /\ joined' = joined \ {channel_id}
              /\ last' = [Step("leave_channel") EXCEPT !.cid = channel_id]
  /\ UNCHANGED <<websocket, connected, listen_task, event_handlers, sock, task>>
  /\ UNCHANGED <<http, auth, dash>>

\* if not self.websocket or not self.connected: raise (_send_channel_event)
SendRefused == websocket = 0 \/ ~connected

\* a sender that looks the channel up before it looks at the connection
JoinCheckedFirst(channel_id) ==
  IF channel_id \notin DOMAIN channels THEN NotJoinedErr(channel_id)
  ELSE IF SendRefused THEN NotConnectedErr
  ELSE NoError

\* the two checks _send_channel_event opens with, in their order: the error
\* raised, NoError if both pass
SendChecks(channel_id) ==
  IF SendRefused THEN NotConnectedErr
  ELSE IF channel_id \notin DOMAIN channels THEN NotJoinedErr(channel_id)
  ELSE NoError

\* _send_channel_event(channel_id, event, payload), reached through the
\* wrapper op (send_message, edit_message, ...)
SendChannelEvent(op, channel_id) ==
  /\ ~Hung
  /\ last' =
       IF SendChecks(channel_id) # NoError
         THEN [Step(op) EXCEPT !.cid = channel_id, !.err = SendChecks(channel_id)]
         ELSE IF sock[websocket] # "open"
           THEN [Step(op) EXCEPT !.cid = channel_id, !.err = ConnectionClosedErr]
           ELSE [Step(op) EXCEPT !.cid = channel_id,
                   !.sent = <<Envelope(channels[channel_id].topic,
                                       SenderEvent[op], "args")>>]
  /\ UNCHANGED <<websocket, connected, listen_task, channels, event_handlers,
                 sock, task, joined>>
  /\ UNCHANGED <<http, auth, dash>>

\* on(event, handler)
On(event, handler) ==
  /\ ~Hung
  /\ NumRegistered < MaxHandlers
  /\ event_handlers' =
       DictSet(event_handlers, event,
               Append(DictGet(event_handlers, event, <<>>), handler))
  /\ last' = Step("on")
  /\ UNCHANGED <<websocket, connected, listen_task, channels, sock, task, joined>>
  /\ UNCHANGED <<http, auth, dash>>

\* ---- HTTPClient.request --------------------------------------------------

wsvars == <<websocket, connected, listen_task, channels, event_handlers, sock,
            task, joined, last>>

\* a client is constructed with the caller's retry_attempts and retry_delay
HTTPClientInit(retry_attempts, retry_delay) ==
  /\ http.pc # "running"
  /\ http' = HTTPClientNew(retry_attempts, retry_delay)
  /\ UNCHANGED <<wsvars, auth, dash>>

\* request(method, endpoint, ...) is called: last_error = None, the for loop
\* over range(self.retry_attempts + 1) is entered
Request ==
  /\ http.pc # "running"
  /\ http' = [HTTPClientNew(http.retry_attempts, http.retry_delay)
                EXCEPT !.pc = "running"]
  /\ UNCHANGED <<wsvars, auth, dash>>

\* one iteration of the for loop, session.request() coming to outcome: return
\* the body, or sleep and go on to the next iteration, or raise
Attempt(outcome) ==
  /\ http.pc = "running"
  /\ LET error == AttemptError(outcome)
         made == [http EXCEPT !.outcomes = Append(@, outcome)]
     IN http' =
          IF error = NoHttpError
            THEN [made EXCEPT !.pc = "returned", !.result = ResponseJson(outcome)]
          ELSE IF http.attempt < http.retry_attempts /\ ShouldRetry(error)
            THEN [made EXCEPT !.last_error = error,
                              !.slept = Append(@, Backoff(http.retry_delay,
                                                          http.attempt)),
                              !.attempt = @ + 1]
            ELSE [made EXCEPT !.last_error = error, !.pc = "raised",
                              !.err = error]
  /\ UNCHANGED <<wsvars, auth, dash>>

\* ---- AuthService ---------------------------------------------------------

noauth == <<wsvars, http, dash>>

\* login(email, password)
Login(response) ==
  /\ auth' =
       LET req == <<Sent("/api/auth/login", NoneId, response)>>
       IN IF ~response.ok
            THEN Served(auth, "login", req, "", response.err)
          ELSE IF response.body = "{}"
            THEN Served(auth, "login", req, "", KeyErrorData)
          ELSE Served([auth EXCEPT !.access_token = LoginAccessToken,
                                   !.refresh_token = LoginRefreshToken],
                      "login", req, response.body, NoHttpError)
  /\ UNCHANGED noauth

\* logout(): the request is made with a token only, its failure is logged
Logout(response) ==
  /\ auth' =
       Served([auth EXCEPT !.access_token = NoneId, !.refresh_token = NoneId],
              "logout",
              IF Truthy(auth.access_token)
                THEN <<Sent("/api/auth/logout", auth.access_token, response)>>
                ELSE <<>>,
              "", NoHttpError)
  /\ UNCHANGED noauth

\* a handler that raises without dropping the tokens
KeepTokens(a) == a

\* self.access_token = None; self.refresh_token = None
ClearTokens(a) == [a EXCEPT !.access_token = NoneId, !.refresh_token = NoneId]

\* make_authenticated_request(method, endpoint, data): first is what the
\* request comes to, refreshed what the refresh request comes to if one is
\* made, replay what the repeated request comes to if one is made
MakeAuthenticatedRequest(first, refreshed, replay) ==
  /\ auth' =
       LET op == "make_authenticated_request"
           bearer == IF Truthy(auth.access_token) THEN auth.access_token ELSE NoneId
           req1 == Sent("/api/me", bearer, first)
           req2 == Sent("/api/auth/refresh", NoneId, refreshed)
           req3 == Sent("/api/me", RefreshedAccessToken, replay)
       IN IF first.ok
            THEN Served(auth, op, <<req1>>, first.body, NoHttpError)
          ELSE IF first.err.cls # "TokenExpiredError" \/ ~Truthy(auth.refresh_token)
            THEN Served(auth, op, <<req1>>, "", first.err)
          ELSE IF ~refreshed.ok \/ refreshed.body = "{}"
            THEN Served(ClearTokens(auth), op, <<req1, req2>>, "", AuthenticationErr)
          ELSE IF ~replay.ok
            THEN Served(ClearTokens(auth), op, <<req1, req2, req3>>, "",
                        AuthenticationErr)
          ELSE Served([auth EXCEPT !.access_token = RefreshedAccessToken],
                      op, <<req1, req2, req3>>, replay.body, NoHttpError)
  /\ UNCHANGED noauth

\* ---- SlackCloneClient ----------------------------------------------------

\* raise AuthenticationError("No access token available for WebSocket")
NoTokenErr ==
  [cls |-> "AuthenticationError", msg |-> "No access token available for WebSocket"]

\* a test for the token that lets every value through
AnyTokenPasses(token) == FALSE

\* if not token
NoToken(token) == ~Truthy(token)

\* connect_websocket(): transport is what websockets.connect() comes to if
\* it is called, "ok" or the failure it raises
ConnectWebsocket(transport) ==
  LET token == auth.access_token
      step == [Step("connect_websocket") EXCEPT !.token = token]
  IN IF NoToken(token)
       THEN /\ ~Hung
            /\ last' = [Step("connect_websocket") EXCEPT !.err = NoTokenErr]
            /\ UNCHANGED <<websocket, connected, listen_task, channels,
                           event_handlers, sock, task, joined>>
            /\ UNCHANGED <<http, auth, dash>>
       ELSE IF transport = "ok"
         THEN /\ ConnectOpens
              /\ last' = step
         ELSE /\ ConnectRaises
              /\ last' = [step EXCEPT !.err = ConnectFailedErr(transport),
                                      !.cause = transport]

\* close(): the HTTP session is closed, and disconnect() is called if the
\* flag of the WebSocket client is set
Close ==
  IF connected
    THEN /\ Teardown
         /\ last' = Step("close")
    ELSE /\ ~Hung
         /\ last' = Step("close")
         /\ UNCHANGED <<websocket, connected, listen_task, channels,
                        event_handlers, sock, task, joined>>
         /\ UNCHANGED <<http, auth, dash>>

\* the requests of AuthService coming to a success or to an expired token
ClientResults ==
  {RequestReturns("body"),
   RequestRaises(AttemptError(Resp(401, "TOKEN_EXPIRED", TRUE)))}

\* ---- the dashboard's calls -----------------------------------------------

nodash == <<wsvars, http, auth>>

\* The look-ups keep no state between calls: a behaviour makes one call.
CallValidateFileUpload(file_name, file_size) ==
  /\ dash.op = "init"
  /\ dash' = [DashCall("validate_file_upload") EXCEPT
                !.name = file_name, !.size = file_size,
                !.valid = ValidateFileUpload(file_name, file_size)]
  /\ UNCHANGED nodash

CallGetThemeColors(theme) ==
  /\ dash.op = "init"
  /\ dash' = [DashCall("get_theme_colors") EXCEPT
                !.theme = theme, !.colors = GetThemeColors(theme)]
  /\ UNCHANGED nodash

CallGetChartTheme(theme_name) ==
  /\ dash.op = "init"
  /\ dash' = [DashCall("get_chart_theme") EXCEPT
                !.theme = theme_name, !.colors = GetChartTheme(theme_name)]
  /\ UNCHANGED nodash

\* ---- the specifications --------------------------------------------------

\* Connection and subscription life cycle: a caller that uses every operation
\* but on(), in any order (connect() on a connected client included), against
\* a transport that may fail at any time.  The registry stays empty, and no
\* operation but on() and the dispatch reads it.
Next ==
  \/ ConnectOk
  \/ \E e \in TransportFailures : ConnectFail(e)
  \/ Disconnect
  \/ \E c \in ChannelIds, cb \in CallbackMaps : JoinChannel(c, cb)
  \/ \E c \in ChannelIds : LeaveChannel(c)
  \/ \E op \in Senders, c \in ChannelIds : SendChannelEvent(op, c)
  \/ \E t \in Conns : TaskStart(t)
  \/ \E t \in Conns, m \in Frames : Recv(t, m)
  \/ \E t \in Conns, m \in Frames : RecvSuspend(t, m)
  \/ \E t \in Conns : HandlerResume(t)
  \/ \E t \in Conns : RecvGarbage(t)
  \/ \E t \in Conns : RecvClosed(t)
  \/ \E t \in Conns : RecvError(t)
  \/ \E s \in Conns : TransportLost(s)

Spec == Init /\ [][Next]_vars

\* The same program under the event loop's scheduling: a task that is ready to
\* run (created and not yet started, woken by the closure of the transport it
\* waits on, or with its awaited handler resumed) is run.
SpecLive ==
  /\ Init /\ [][Next]_vars
  /\ \A t \in Conns : /\ WF_vars(TaskStart(t))
                       /\ WF_vars(RecvClosed(t))
                       /\ WF_vars(HandlerResume(t))

\* connect() called on a client that holds no transport
ConnectFresh == websocket = 0 /\ ConnectOk

\* Dispatch: a caller that registers global handlers with on(), joins and
\* leaves channels, sends, and connects only a client that holds no transport; the
\* receive task dispatches every frame the transport delivers.
NextDispatch ==
  \/ ConnectFresh
  \/ Disconnect
  \/ \E c \in ChannelIds, cb \in CallbackMaps : JoinChannel(c, cb)
  \/ \E c \in ChannelIds : LeaveChannel(c)
  \/ \E op \in Senders, c \in ChannelIds : SendChannelEvent(op, c)
  \/ \E e \in Events, h \in Handlers : On(e, h)
  \/ \E t \in Conns : TaskStart(t)
  \/ \E t \in Conns, m \in Frames : Recv(t, m)
  \/ \E t \in Conns : RecvClosed(t)
  \/ \E s \in Conns : TransportLost(s)

SpecDispatch == Init /\ [][NextDispatch]_vars

\* HTTP: clients constructed with any retry_attempts and retry_delay, and
\* request() against a server and a network that answer each attempt in any way
NextHttp ==
  \/ \E ra \in RetryAttemptsGiven, rd \in RetryDelaysGiven : HTTPClientInit(ra, rd)
  \/ Request
  \/ \E o \in HttpOutcomes : Attempt(o)

SpecHttp == Init /\ [][NextHttp]_vars

\* Dashboard: one configuration or theme look-up, called with any argument
NextDash ==
  \/ \E n \in FileNames, z \in FileSizes : CallValidateFileUpload(n, z)
  \/ \E t \in ThemeNames : CallGetThemeColors(t)
  \/ \E t \in ThemeNames : CallGetChartTheme(t)

SpecDash == Init /\ [][NextDash]_vars

\* AuthService alone, every request coming to any of its results
NextAuth ==
  \/ \E r \in RequestResults : Login(r)
  \/ \E r \in RequestResults : Logout(r)
  \/ \E r1, r2, r3 \in RequestResults : MakeAuthenticatedRequest(r1, r2, r3)

SpecAuth == Init /\ [][NextAuth]_vars

\* the client as a whole: its AuthService and its WebSocketClient, used
\* through the client's own methods, with the receive task and the transport
NextClient ==
  \/ \E r \in ClientResults : Login(r)
  \/ \E r \in ClientResults : Logout(r)
  \/ \E r1, r2, r3 \in ClientResults : MakeAuthenticatedRequest(r1, r2, r3)
  \/ \E x \in {"ok"} \cup TransportFailures : ConnectWebsocket(x)
  \/ Close
  \/ \E c \in ChannelIds, cb \in CallbackMaps : JoinChannel(c, cb)
  \/ \E t \in Conns : TaskStart(t)
  \/ \E t \in Conns : RecvClosed(t)
  \/ \E s \in Conns : TransportLost(s)

SpecClient == Init /\ [][NextClient]_vars

\* ---- the claims ---------------------------------------------------------

FrameTopic == DictGet(last.frame, "topic", "")
FrameEvent == DictGet(last.frame, "event", "")
FramePayload == DictGet(last.frame, "payload", "{}")
ChannelCalls == SelectSeq(last.calls, LAMBDA c : c.scope = "channel")
GlobalCalls == SelectSeq(last.calls, LAMBDA c : c.scope = "global")
HandlersOf(calls) == [i \in 1..Len(calls) |-> calls[i].handler]
NoLiveTask == \A t \in Conns : ~Live(t)

\* C1: the subscription map has as many entries as there are distinct channel
\* ids whose join returned and that were not left (or cleared by disconnect)
\* since, and a channel-scoped sender that puts a frame on the transport does
\* so for a channel id that is in the map, on that channel's topic.
C1_SubscriptionsMatchJoins ==
  /\ Cardinality(DOMAIN channels) = Cardinality(joined)
  /\ DOMAIN channels = joined
  /\ (last.op \in Senders /\ last.sent # <<>>) =>
        /\ last.cid \in DOMAIN channels
        /\ Len(last.sent) = 1
        /\ last.sent[1].topic = Topic(last.cid)

\* a leave has removed one of two joined channels, telling the server
C1_Witness ==
  /\ last.op = "leave_channel"
  /\ last.sent # <<>>
  /\ Cardinality(joined) = 1
  /\ connected

\* C2: disconnect() raises nothing and leaves the subscription map empty and
\* the connected flag false, also when the call before it was a disconnect().
C2_DisconnectIdempotent ==
  last.op = "disconnect" =>
    /\ last.err = NoError
    /\ channels = EmptyDict
    /\ ~connected

\* the second of two disconnect() calls in a row, on a client that had connected
C2_Witness ==
  /\ last.op = "disconnect"
  /\ last.again
  /\ listen_task # 0
  /\ last.err = NoError

\* C3: when disconnect() returns no receive task of the client is running,
\* the transport of the last connect() is closed, the handle is released, the
\* connected flag is false and the subscription map is empty.
C3_NoDanglingTask ==
  last.op = "disconnect" =>
    /\ NoLiveTask
    /\ listen_task # 0 => sock[listen_task] = "closed"
    /\ websocket = 0
    /\ ~connected
    /\ channels = EmptyDict

\* the frame just handled has the topic of no entry of the subscription map
NoTopicMatch == \A cid \in DOMAIN channels : channels[cid].topic # FrameTopic
\* what on() has registered for the event of the frame just handled
RegisteredForEvent == DictGet(event_handlers, FrameEvent, <<>>)
\* the loop of the task that took the last step goes on whenever its
\* condition holds: the task is suspended in recv() again (or being refused it)
LoopGoesOn == (connected /\ websocket # 0) => Live(last.who)

\* C4 as claimed: a frame whose topic matches no subscription causes no
\* handler invocation at all, raises nothing, and the loop goes on.
C4_DroppedWithoutAnyCall ==
  (last.op = "recv" /\ NoTopicMatch) =>
    /\ last.calls = <<>>
    /\ last.err = NoError
    /\ LoopGoesOn

\* C4 as amended: a frame whose topic matches no subscription invokes no
\* per-channel callback; the handlers registered with on() for its event name
\* are invoked, each once and in registration order, and nothing else is;
\* nothing is raised and the loop goes on.
C4_NoChannelCallback ==
  (last.op = "recv" /\ NoTopicMatch) =>
    /\ ChannelCalls = <<>>
    /\ HandlersOf(last.calls) = RegisteredForEvent
    /\ last.err = NoError
    /\ LoopGoesOn

\* a frame on a topic nobody joined, while a subscription with a callback for
\* its event exists, reached a global handler only
C4_Witness ==
  /\ last.op = "recv"
  /\ NoTopicMatch
  /\ FrameTopic = "user:c1"
  /\ \E cid \in DOMAIN channels : FrameEvent \in DOMAIN channels[cid].callbacks
  /\ Len(last.calls) = 1
  /\ Live(last.who)

\* C5: when a handler raises while a frame is dispatched, (a) every handler
\* registered with on() for the frame's event is still invoked, in order, and
\* so is the per-channel callback the frame selects; (b) the task goes back to
\* recv() for the next frame; the subscription map is unchanged, and the
\* connected flag changes only if the transport itself refuses the next recv().
C5_RaisingHandlerIsolated ==
  [][ (last'.op = "recv" /\ \E i \in 1..Len(last'.calls) : last'.calls[i].raised) =>
        /\ HandlersOf(SelectSeq(last'.calls, LAMBDA c : c.scope = "global"))
             = DictGet(event_handlers, DictGet(last'.frame, "event", ""), <<>>)
        /\ \A cid \in DOMAIN channels :
             ( /\ Truthy(cid)
               /\ channels[cid].topic = DictGet(last'.frame, "topic", "")
               /\ DictGet(last'.frame, "event", "") \in DOMAIN channels[cid].callbacks )
             => last'.calls[1].scope = "channel"
        /\ last'.err = NoError
        /\ channels' = channels
        /\ event_handlers' = event_handlers
        /\ (connected /\ websocket # 0) =>
             \/ connected' /\ task'[last'.who].st \in {"recv", "spin"}
             \/ ~connected' /\ sock[websocket] # "open"
             \/ ~connected' /\ \E u \in Conns \ {last'.who} :
                                  task[u].st = "recv" /\ task[u].ws = websocket
      ]_vars

\* the per-channel callback raised and both global handlers ran after it, the
\* first of them raising too; the task is back in recv()
C5_Witness ==
  /\ last.op = "recv"
  /\ Len(last.calls) = 3
  /\ last.calls[1].raised
  /\ last.calls[2].raised
  /\ ~last.calls[3].raised
  /\ connected
  /\ task[last.who].st = "recv"

\* C6 as claimed: a channel-scoped sender called for a channel id that was
\* never joined (the map is the only record of joins the client keeps: such
\* an id is not in it) fails with the not-joined error, which is not the
\* not-connected error, and puts no frame on the transport.
C6_UnjoinedAlwaysNotJoined ==
  (last.op \in Senders /\ last.cid \notin DOMAIN channels) =>
    /\ last.err = NotJoinedErr(last.cid)
    /\ last.err # NotConnectedErr
    /\ last.sent = <<>>

\* C6 as amended: on a connected client (handle set, flag true), a
\* channel-scoped sender called for a channel id that is not in the
\* subscription map fails with the not-joined error, which is not the
\* not-connected error, and puts no frame on the transport.
C6_UnjoinedOnConnected ==
  (last.op \in Senders /\ last.cid \notin DOMAIN channels
     /\ connected /\ websocket # 0) =>
    /\ last.err = NotJoinedErr(last.cid)
    /\ last.err.cls = "SlackCloneError"
    /\ last.err # NotConnectedErr
    /\ last.sent = <<>>

\* a sender refused for an unjoined id while another channel is joined
C6_Witness ==
  /\ last.op = "mark_as_read"
  /\ last.cid = "c1"
  /\ last.cid \notin DOMAIN channels
  /\ channels # EmptyDict
  /\ connected
  /\ websocket # 0
  /\ last.err = NotJoinedErr("c1")

\* C7: while the client is not connected (flag false or no handle),
\* join_channel and every channel-scoped sender raise the not-connected
\* error, put no frame on the transport and leave the subscription map as it
\* was.
C7_RefusedWhenNotConnected ==
  [][ (last'.op \in Senders \cup {"join_channel"} /\ (~connected \/ websocket = 0)) =>
        /\ last'.err = NotConnectedErr
        /\ last'.sent = <<>>
        /\ channels' = channels
        /\ connected' = connected
        /\ websocket' = websocket
    ]_vars

\* a join refused after the receive loop saw the transport close: the handle
\* is still set, the flag is false, an earlier subscription is still recorded
C7_Witness ==
  /\ last.op = "join_channel"
  /\ last.err = NotConnectedErr
  /\ websocket # 0
  /\ ~connected
  /\ last.cid \notin DOMAIN channels
  /\ channels # EmptyDict

\* C8: for a frame of any topic, the handlers registered with on() for its
\* event name are invoked once each, in registration order, and no handler
\* registered for another event name is.
C8_GlobalHandlersInOrder ==
  last.op = "recv" =>
    /\ HandlersOf(GlobalCalls) = RegisteredForEvent
    /\ \A i \in 1..Len(GlobalCalls) : GlobalCalls[i].payload = FramePayload

\* two handlers registered for one event, both invoked in order for a frame
\* whose topic is no channel topic
C8_Witness ==
  /\ last.op = "recv"
  /\ FrameTopic = "user:c1"
  /\ Len(RegisteredForEvent) = 2
  /\ RegisteredForEvent[1] # RegisteredForEvent[2]
  /\ HandlersOf(last.calls) = RegisteredForEvent

\* C9 as claimed: a frame whose topic is "channel:<id>" for a joined id and
\* whose event has a callback in that subscription's map invokes exactly that
\* callback, once, with the frame's payload, and no other per-channel callback.
C9_ChannelCallbackInvoked ==
  \A cid \in DOMAIN channels :
    ( /\ last.op = "recv"
      /\ FrameTopic = Topic(cid)
      /\ FrameEvent \in DOMAIN channels[cid].callbacks )
    => ChannelCalls = <<Invoke("channel", channels[cid].callbacks[FrameEvent],
                                FramePayload)>>

\* C10 as claimed: after leave_channel(id), returned or raised, id is not in
\* the subscription map.
C10_LeaveAlwaysRemoves ==
  last.op = "leave_channel" => last.cid \notin DOMAIN channels

\* C11: in every reachable state, connected = TRUE implies that a receive
\* task of the client has not returned (scheduled, suspended in recv() or
\* looping); equivalently, whenever no receive task is running the flag is
\* FALSE, whatever the order of connect, disconnect, transport closure and
\* caller operations.
C11_ConnectedImpliesLiveLoop ==
  connected => \E t \in Conns : Live(t)

\* the last receive task has returned on a closed transport of a client that
\* had connected twice, and the flag is down
C11_Witness ==
  /\ last.op = "recv_closed"
  /\ listen_task = 2
  /\ NoLiveTask
  /\ ~connected

\* C12 as claimed: at every moment at most one receive task of the client has
\* not returned, also after connect() on a connected client and after
\* connect() following a transport closure.
C12_AtMostOneLiveTask ==
  Cardinality({t \in Conns : Live(t)}) <= 1

\* C13: a connect() that succeeds leaves connected TRUE, a fresh open
\* transport in the handle and a newly created receive task in the task
\* reference; a connect() whose transport cannot be established raises the
\* connection error that wraps the transport's failure, creates no task and
\* leaves the flag, the handle, the task reference, the transports and the
\* subscription map as they were.
C13_ConnectOutcome ==
  [][ last'.op = "connect" =>
        IF last'.err = NoError
          THEN /\ connected'
               /\ websocket' # 0 /\ websocket' # websocket
               /\ sock[websocket'] = "unborn" /\ sock'[websocket'] = "open"
               /\ listen_task' # 0
               /\ task[listen_task'].st = "none"
               /\ task'[listen_task'].st = "pending"
          ELSE /\ last'.err = ConnectFailedErr(last'.cause)
               /\ last'.cause \in TransportFailures
               /\ UNCHANGED <<connected, websocket, listen_task, task, sock,
                              channels>> ]_vars

\* connect() has failed on a connected client that holds a subscription: the
\* caller holds the wrapped failure, the client is as it was
C13_Witness ==
  /\ last.op = "connect"
  /\ last.err = ConnectFailedErr("refused")
  /\ connected
  /\ websocket = 1
  /\ task[1].st = "recv"
  /\ channels # EmptyDict

\* C14 as claimed: join_channel(id, callbacks) on a connected client whose
\* transport is open sends exactly the frame {topic "channel:<id>", event
\* "phx_join", payload {}} and returns with the subscription recorded, no
\* inbound frame in between; a channel-scoped sender called for that id right
\* after it succeeds with one frame on that topic, and a frame for that topic
\* arriving right after it, whose event has a callback, is dispatched to that
\* callback.
C14_JoinFireAndForget ==
  [][ /\ ( /\ last'.op = "join_channel"
           /\ connected /\ websocket # 0 /\ sock[websocket] = "open" )
         => /\ last'.err = NoError
            /\ last'.sent = <<Envelope(Topic(last'.cid), "phx_join", "{}")>>
            /\ last'.cid \in DOMAIN channels'
            /\ channels'[last'.cid].topic = Topic(last'.cid)
      /\ ( /\ last.op = "join_channel" /\ last.err = NoError
           /\ last'.op \in Senders /\ last'.cid = last.cid )
         => /\ last'.err = NoError
            /\ last'.sent = <<Envelope(Topic(last.cid), SenderEvent[last'.op],
                                       "args")>>
      /\ ( /\ last.op = "join_channel" /\ last.err = NoError
           /\ last'.op = "recv"
           /\ DictGet(last'.frame, "topic", "") = Topic(last.cid)
           /\ DictGet(last'.frame, "event", "") \in
                DOMAIN channels[last.cid].callbacks )
         => \E i \in 1..Len(last'.calls) :
              /\ last'.calls[i].scope = "channel"
              /\ last'.calls[i].handler =
                   channels[last.cid].callbacks[DictGet(last'.frame, "event", "")]
    ]_vars

\* C15 as claimed: frames of a transport are dispatched one after the other
\* in the order the transport produced them: while a handler invocation for a
\* frame has not completed, no handler invocation for a later frame of that
\* transport begins.
C15_OneFrameAtATime ==
  \A t \in Conns :
    ( /\ task[t].st = "busy"
      /\ last.op \in {"recv", "recv_suspend"}
      /\ last.ws = task[t].ws )
    => last.who = t

\* the safety half of C16: the step that handles the closure sets connected
\* FALSE, ends the task and raises to no caller; connected turns TRUE and a
\* transport opens only in a connect() step; a receive task sends nothing and
\* each call sends at most one frame
NoReconnectNoResend ==
  [][ /\ last'.op = "recv_closed"
         => ~connected' /\ task'[last'.who].st = "done" /\ last'.err = NoError
      /\ (~connected /\ connected') => last'.op = "connect"
      /\ \A s \in Conns :
           (sock[s] # "open" /\ sock'[s] = "open") => last'.op = "connect"
      /\ last'.who # 0 => last'.sent = <<>>
      /\ Len(last'.sent) <= 1 ]_vars

\* C16 as claimed: when the transport a receive task is suspended on closes,
\* that task eventually sets connected FALSE and returns, raising to no
\* caller; afterwards the client never re-establishes a connection and never
\* re-sends a frame on its own: connected stays FALSE until connect() is
\* called again, and each join or send call puts at most one frame on the
\* transport.
C16_ClosureEndsLoop ==
  /\ \A t \in Conns :
       (task[t].st = "recv" /\ sock[task[t].ws] = "lost")
         ~> (~connected /\ ~Live(t))
  /\ NoReconnectNoResend

\* C17 as claimed: a receive task whose recv() raised an exception other than
\* the closed-connection signal has set connected FALSE and left the loop: it
\* is not calling recv() again on the transport that failed ("spin" is the
\* task whose recv() raised RuntimeError and that went on looping).
C17_RecvFailureEndsLoop ==
  /\ last.op = "recv_error" => (~connected /\ task[last.who].st = "done")
  /\ \A t \in Conns : task[t].st = "spin" => (~connected /\ ~Live(t))

\* C18: leave_channel(id) for an id that is not in the subscription map
\* returns without an error and without sending a frame, and leaves the map,
\* the connected flag, the handle, the transports, the receive tasks and the
\* handler registry as they were, whatever the connection state.
C18_LeaveUnknownIsNoOp ==
  [][ (last'.op = "leave_channel" /\ last'.cid \notin DOMAIN channels)
        => /\ last'.err = NoError
           /\ last'.sent = <<>>
           /\ UNCHANGED <<channels, connected, event_handlers, websocket,
                          listen_task, sock, task>> ]_vars

\* leave_channel for an id that is not joined has returned on a connected
\* client with an open transport that holds another subscription and a
\* registered handler: nothing was sent
C18_Witness ==
  /\ last.op = "leave_channel"
  /\ last.err = NoError
  /\ last.sent = <<>>
  /\ connected /\ websocket # 0 /\ sock[websocket] = "open"
  /\ last.cid \notin DOMAIN channels
  /\ channels # EmptyDict
  /\ event_handlers # EmptyDict

\* C19: the global handler registry lives as long as the client: only on()
\* changes it, by appending to the list of one event; connect, disconnect,
\* join_channel, leave_channel, the senders, the receive task and transport
\* closure leave it unchanged, so a frame received on a later connection is
\* dispatched to the handlers registered before, in registration order.
C19_RegistryOutlivesConnections ==
  /\ [][ /\ last'.op # "on" => event_handlers' = event_handlers
         /\ last'.op = "on" =>
              \A e \in DOMAIN event_handlers :
                /\ e \in DOMAIN event_handlers'
                /\ Len(event_handlers'[e]) >= Len(event_handlers[e])
                /\ SubSeq(event_handlers'[e], 1, Len(event_handlers[e]))
                     = event_handlers[e] ]_vars
  /\ [](last.op = "recv" => HandlersOf(GlobalCalls) = RegisteredForEvent)

\* after a disconnect and a second connect, a frame received on the second
\* transport is dispatched to two handlers of the registry, in order
C19_Witness ==
  /\ last.op = "recv"
  /\ last.ws = 2
  /\ sock[1] = "closed"
  /\ Len(RegisteredForEvent) = 2
  /\ RegisteredForEvent[1] # RegisteredForEvent[2]
  /\ HandlersOf(GlobalCalls) = RegisteredForEvent

IsSuccess(outcome) == AttemptError(outcome) = NoHttpError
LastOutcome == http.outcomes[Len(http.outcomes)]

\* C20: request() makes at most retry_attempts + 1 attempts (4 with the
\* default 3) and has ended after that many; it returns the parsed body of
\* the first attempt that succeeds, every earlier attempt having failed, or
\* raises the error of the last attempt it made; after the failed attempt
\* number k (counted from 0) that is followed by another it has slept
\* retry_delay * 2^k, each delay twice the one before.
C20_RetryBounded ==
  /\ Len(http.outcomes) <= http.retry_attempts + 1
  /\ http.pc = "running" => Len(http.outcomes) <= http.retry_attempts
  /\ http.pc = "running" => Len(http.slept) = Len(http.outcomes)
  /\ http.pc \in {"returned", "raised"} =>
       /\ Len(http.outcomes) >= 1
       /\ Len(http.slept) = Len(http.outcomes) - 1
       /\ \A i \in 1..(Len(http.outcomes) - 1) : ~IsSuccess(http.outcomes[i])
  /\ http.pc = "returned" =>
       /\ IsSuccess(LastOutcome)
       /\ http.result = ResponseJson(LastOutcome)
  /\ http.pc = "raised" =>
       /\ ~IsSuccess(LastOutcome)
       /\ http.err = AttemptError(LastOutcome)
  /\ \A k \in 1..Len(http.slept) : http.slept[k] = http.retry_delay * (2 ^ (k - 1))
  /\ \A k \in 2..Len(http.slept) : http.slept[k] = 2 * http.slept[k - 1]

\* the default client has raised the error of its fourth attempt, after
\* sleeping 1, 2 and 4 seconds
C20_Witness ==
  /\ http.pc = "raised"
  /\ http.retry_attempts = DefaultRetryAttempts
  /\ http.retry_delay = DefaultRetryDelay
  /\ Len(http.outcomes) = 4
  /\ http.slept = <<1, 2, 4>>
  /\ http.err = HttpError("SlackCloneError", "503", 503)

\* C21 as claimed: the error request() raises for a response is decided by
\* its status and the error code of its body: 401 with code TOKEN_EXPIRED
\* gives TokenExpiredError, any other 401 AuthenticationError, 422
\* ValidationError with the body's details, 429 RateLimitError with
\* retry_after from the Retry-After header (60 without one), every other
\* status >= 400 SlackCloneError with the code, status and details; a status
\* below 400 gives no error.
C21_ErrorMapping ==
  (http.pc \in {"returned", "raised"} /\ LastOutcome.kind = "response") =>
    LET r == LastOutcome
        e == http.err
        parsed == r.json /\ ~r.flat
    IN /\ r.status < 400 <=> http.pc = "returned"
       /\ r.status = 401 =>
            e.cls = IF parsed /\ r.code = "TOKEN_EXPIRED"
                      THEN "TokenExpiredError" ELSE "AuthenticationError"
       /\ r.status = 422 =>
            /\ e.cls = "ValidationError"
            /\ parsed => e.details = r.details
       /\ r.status = 429 =>
            /\ e.cls = "RateLimitError"
            /\ r.retry_after = Absent => e.retry_after = 60
            /\ r.retry_after = <<"3", "0">> => e.retry_after = 30
       /\ (r.status >= 400 /\ r.status \notin {401, 422, 429}) =>
            /\ e.cls = "SlackCloneError"
            /\ e.status = r.status
            /\ parsed => (e.code = r.code /\ e.details = r.details)

MessageContains(message, phrase) == \E i \in 1..Len(message) : message[i] = phrase

\* C22: validate_file_upload(name, size) returns (False, a message containing
\* "Unsupported file format") whenever the lower-cased extension of name is
\* none of .csv, .xlsx, .xls, whatever the size; otherwise (False, a message
\* containing "File too large") exactly when size > 200 * 1024 * 1024;
\* otherwise (True, ...).  A file of exactly 200 MB is accepted.
C22_FileValidation ==
  dash.op = "validate_file_upload" =>
    IF FileExt(dash.name) \notin {".csv", ".xlsx", ".xls"}
      THEN /\ dash.valid[1] = FALSE
           /\ MessageContains(dash.valid[2], "Unsupported file format")
    ELSE IF dash.size > 200 * 1024 * 1024
      THEN /\ dash.valid[1] = FALSE
           /\ MessageContains(dash.valid[2], "File too large")
    ELSE dash.valid[1] = TRUE

\* a file of exactly 200 MB whose extension is written in capitals is accepted
C22_Witness ==
  /\ dash.op = "validate_file_upload"
  /\ dash.name = <<"a", ".", "CSV">>
  /\ dash.size = 209715200
  /\ dash.valid[1] = TRUE

\* C23: for every theme name other than "light" and "dark",
\* get_theme_colors(name) equals get_theme_colors("light") and
\* get_chart_theme(name) equals get_chart_theme("light"); the results for
\* "light" and "dark" differ in background_color.
C23_ThemeFallback ==
  /\ (dash.op = "get_theme_colors" /\ dash.theme \notin {"light", "dark"})
       => dash.colors = THEMES["light"]
  /\ (dash.op = "get_chart_theme" /\ dash.theme \notin {"light", "dark"})
       => dash.colors = GetChartTheme("light")
  /\ (dash.op \in {"get_theme_colors", "get_chart_theme"} /\ dash.theme = "dark")
       => /\ dash.colors.background_color = "#0E1117"
          /\ dash.colors.background_color # GetThemeColors("light").background_color
          /\ dash.colors.background_color # GetChartTheme("light").background_color

\* the chart theme was asked for a name that is no theme, and the light one
\* came back
C23_Witness ==
  /\ dash.op = "get_chart_theme"
  /\ dash.theme = "invalid"
  /\ dash.colors.background_color = "#FFFFFF"
  /\ dash.colors.grid_color = "#26273020"

RequestsTo(a, endpoint) ==
  Len(SelectSeq(a.requests, LAMBDA r : r.endpoint = endpoint))

SameTokens(a, b) ==
  a.access_token = b.access_token /\ a.refresh_token = b.refresh_token

NoTokens(a) == a.access_token = NoneId /\ a.refresh_token = NoneId

Expired(request) ==
  ~request.response.ok /\ request.response.err.cls = "TokenExpiredError"

\* the refresh request returned a body with the new access token in it
Refreshed(request) == request.response.ok /\ request.response.body # "{}"

\* C25: one call of make_authenticated_request makes at most one refresh and
\* at most one replay.  When the first attempt raises TokenExpiredError and a
\* refresh token is held, exactly one refresh request is made; if it succeeds
\* the request is repeated exactly once, with the new access token, and a
\* success of the replay is returned with the new token kept; when the
\* refresh or the replay fails, whatever the reason, both tokens are cleared
\* and AuthenticationError is raised.  With no refresh token the
\* TokenExpiredError propagates, and any other error of the first attempt
\* propagates, the tokens unchanged in both cases and no second request made.
C25_RefreshOnceReplayOnce ==
  [][auth'.op = "make_authenticated_request" =>
       LET made == auth'.requests
           refreshes == Truthy(auth.refresh_token) /\ Expired(made[1])
       IN /\ Len(made) \in 1..3
          /\ RequestsTo(auth', "/api/auth/refresh") <= 1
          /\ RequestsTo(auth', made[1].endpoint) <= 2
          /\ made[1].bearer = (IF Truthy(auth.access_token)
                                 THEN auth.access_token ELSE NoneId)
          /\ made[1].response.ok =>
                /\ Len(made) = 1
                /\ auth'.err = NoHttpError
                /\ SameTokens(auth', auth)
          /\ (~made[1].response.ok /\ ~refreshes) =>
                /\ Len(made) = 1
                /\ auth'.err = made[1].response.err
                /\ SameTokens(auth', auth)
          /\ refreshes =>
                /\ Len(made) >= 2
                /\ made[2].endpoint = "/api/auth/refresh"
                /\ Refreshed(made[2]) =>
                      /\ Len(made) = 3
                      /\ made[3].endpoint = made[1].endpoint
                      /\ made[3].bearer = RefreshedAccessToken
                      /\ made[3].response.ok =>
                            /\ auth'.err = NoHttpError
                            /\ auth'.result = made[3].response.body
                            /\ auth'.access_token = RefreshedAccessToken
                            /\ auth'.refresh_token = auth.refresh_token
                /\ ~Refreshed(made[2]) => Len(made) = 2
                /\ (~Refreshed(made[2]) \/ ~made[Len(made)].response.ok) =>
                      /\ NoTokens(auth')
                      /\ auth'.err = AuthenticationErr
  ]_vars

\* a call whose refresh went through and whose replay failed with a status
\* that is no authentication failure: the tokens are gone all the same
C25_Witness ==
  /\ auth.op = "make_authenticated_request"
  /\ Len(auth.requests) = 3
  /\ Refreshed(auth.requests[2])
  /\ auth.requests[3].bearer = RefreshedAccessToken
  /\ auth.requests[3].response.err.status = 503
  /\ auth.err = AuthenticationErr
  /\ NoTokens(auth)

\* ---- C26 ------------------------------------------------------------------

\* what request() is said to retry: a transport error of the client library,
\* a timeout, a response with a status of 500 or more
Transient(outcome) ==
  \/ outcome.kind = "exception" /\ outcome.cls \in {"ClientError", "TimeoutError"}
  \/ outcome.kind = "response" /\ outcome.status >= 500

ClientFault(outcome) ==
  outcome.kind = "response" /\ outcome.status \in 400..499

\* C26: an attempt of request() is followed by a sleep and another attempt
\* only if it ended in a transport client error, a timeout or a response
\* with status >= 500.  A response with status 401, 403, 422, 429 or any
\* other 4xx status ends the call with a raise at once: as the first attempt
\* it leaves one attempt made and no sleep.  A response below 400 ends the
\* call with a return and is followed by no attempt.
C26_RetryOnlyTransient ==
  [][(http.pc = "running" /\ http'.pc \in {"running", "returned", "raised"}
        /\ Len(http'.outcomes) = Len(http.outcomes) + 1) =>
       LET outcome == http'.outcomes[Len(http'.outcomes)]
       IN /\ (http'.pc = "running" \/ Len(http'.slept) > Len(http.slept)) =>
               Transient(outcome)
          /\ ClientFault(outcome) =>
               /\ http'.pc = "raised"
               /\ http'.slept = http.slept
               /\ Len(http.outcomes) = 0 =>
                    Len(http'.outcomes) = 1 /\ http'.slept = <<>>
          /\ (outcome.kind = "response" /\ outcome.status < 400) =>
               /\ http'.pc = "returned"
               /\ http'.slept = http.slept
  ]_vars

\* a 429 response as the first attempt of a client with retries left: raised
\* as RateLimitError after that one attempt, nothing slept
C26_Witness ==
  /\ http.pc = "raised"
  /\ http.retry_attempts = DefaultRetryAttempts
  /\ Len(http.outcomes) = 1
  /\ http.outcomes[1].status = 429
  /\ http.err.cls = "RateLimitError"
  /\ http.slept = <<>>

\* ---- C27 ------------------------------------------------------------------

\* C27: when the send of the join frame fails inside join_channel, the error
\* reaches the caller, no frame has gone out and the subscription map is what
\* it was: an id that was not joined is not recorded, an id that was joined
\* keeps the callback map it had; so the ids that sends and dispatch go by
\* are the same after the failed join as before it.
C27_FailedJoinRecordsNothing ==
  [][(last'.op = "join_channel" /\ last'.err = ConnectionClosedErr) =>
       /\ last'.sent = <<>>
       /\ channels' = channels
       /\ (last'.cid \in DOMAIN channels') = (last'.cid \in DOMAIN channels)
       /\ last'.cid \in DOMAIN channels =>
            channels'[last'.cid].callbacks = channels[last'.cid].callbacks
       /\ joined' = joined
  ]_vars

\* a join on a connected client whose transport is gone has raised, the id
\* is not in the map and a send to it is still refused as not joined
C27_Witness ==
  /\ last.op = "join_channel"
  /\ last.err = ConnectionClosedErr
  /\ connected
  /\ websocket # 0
  /\ last.cid \notin DOMAIN channels

\* ---- C28 ------------------------------------------------------------------

\* C28: a channel-scoped sender called while the client is not connected
\* (no handle or flag false) and the channel id is not in the subscription
\* map raises the not-connected error, not the not-joined one; the
\* not-joined error is raised only with the handle set and the flag true.
C28_ConnectionCheckedFirst ==
  [][last'.op \in Senders =>
       /\ ((websocket = 0 \/ ~connected) /\ last'.cid \notin DOMAIN channels) =>
            /\ last'.err = NotConnectedErr
            /\ last'.err # NotJoinedErr(last'.cid)
       /\ last'.err = NotJoinedErr(last'.cid) =>
            /\ websocket # 0 /\ connected
            /\ websocket' # 0 /\ connected'
  ]_vars

\* a sender refused as not connected on a client that has a handle, no flag
\* and no record of the channel it was called for
C28_Witness ==
  /\ last.op \in Senders
  /\ last.err = NotConnectedErr
  /\ last.cid \notin DOMAIN channels
  /\ websocket # 0
  /\ ~connected

\* ---- C29 ------------------------------------------------------------------

\* C29 as claimed: when close() has returned, the WebSocket client holds no
\* handle of an open transport, no receive task is live and the subscription
\* map is empty, whatever the state close() was called in.
C29_CloseReleasesEverything ==
  last.op = "close" =>
    /\ (websocket = 0 \/ sock[websocket] # "open")
    /\ NoLiveTask
    /\ channels = EmptyDict

\* ---- C30 ------------------------------------------------------------------

\* C30: connect_websocket() with no access token stored (none yet, or
\* cleared by logout() or by a failed refresh) raises AuthenticationError,
\* opens no transport, creates no task and leaves handle, flag, task
\* reference, subscriptions and handlers of the WebSocket client as they
\* were; with a token stored it calls connect() with exactly that token,
\* and the tokens are the same after the call either way.
C30_ConnectNeedsStoredToken ==
  [][(\E x \in {"ok"} \cup TransportFailures : ConnectWebsocket(x)) =>
       /\ last'.op = "connect_websocket"
       /\ auth' = auth
       /\ auth.access_token = NoneId =>
            /\ last'.err = NoTokenErr
            /\ last'.token = NoneId
            /\ UNCHANGED <<websocket, connected, listen_task, channels,
                           event_handlers, sock, task>>
       /\ auth.access_token # NoneId =>
            /\ last'.token = auth.access_token
            /\ last'.err \in {NoError} \cup
                 {ConnectFailedErr(e) : e \in TransportFailures}
            /\ last'.err = NoError =>
                 /\ connected'
                 /\ websocket' # websocket
                 /\ sock'[websocket'] = "open"
  ]_vars

\* connect_websocket() refused on a client that was connected with the token
\* of its login and whose tokens a failed refresh has cleared since
C30_Witness ==
  /\ last.op = "connect_websocket"
  /\ last.err = NoTokenErr
  /\ auth.op = "make_authenticated_request"
  /\ auth.err = AuthenticationErr
  /\ auth.access_token = NoneId
  /\ connected
  /\ websocket # 0

====
